---- MODULE Spec2Model ----
(***************************************************************************)
(* Model of route-optimizer.py: the persistent route cache, the two-       *)
(* provider route cost lookup (OSRM, then MapQuest), geocoding, the        *)
(* distance-matrix build and the tour optimizer (exact search up to 8      *)
(* stops, nearest neighbour above).                                        *)
(*                                                                         *)
(* The specifications share the definitions:                               *)
(*   Spec      the route cost layer: the module after import, then a       *)
(*             sequence of get_route_with_geometry calls, one network      *)
(*             request per step;                                           *)
(*   SpecCrash Spec with the process killed at any step, a periodic save   *)
(*             in progress included;                                       *)
(*   SpecFlush the route cost layer over a longer sequence of calls for    *)
(*             pairs that are not in the cache, past two periodic saves;   *)
(*   SpecRun   the script from the credential check to its last line, on   *)
(*             inputs of at most MaxRows addresses, MaxStops geocoded;     *)
(*   SpecBuild the matrix build on given stops, with OSRM answers that     *)
(*             carry an empty path among the outcomes;                     *)
(*   SpecTour  the optimizer on distance matrices drawn from a bounded     *)
(*             family, for sizes on both sides of the exact-search limit.  *)
(***************************************************************************)
EXTENDS Integers, Sequences, FiniteSets, TLC

(* ---------------------------- bounds ----------------------------------- *)

\* calls of get_route_with_geometry in one behaviour of Spec
MaxCalls == 3
\* largest number of entries a previous run left in the cache file
MaxOld == 9
\* largest number of addresses that get a coordinate under SpecRun
MaxStops == 2
\* largest number of addresses in addresses.csv under SpecRun
MaxRows == 3
\* calls of get_route_with_geometry in one behaviour of SpecFlush
MaxFlushCalls == 12
\* largest number of stops the exact search is run on under SpecTour
MaxExactStops == 4
\* the nearest-neighbour branch is run on ExactLimit+1 .. ExactLimit+MaxHeuristicExtra stops
MaxHeuristicExtra == 1
\* the distance matrices of SpecTour: multipliers 0..MaxSeed, weights 1..MaxWeight
MaxSeed == 2
MaxWeight == 3

(* ------------------------ program constants ---------------------------- *)

\* range(3) of the OSRM loop, and of the MapQuest and geocoding loops
Attempts == 3
\* len(geometry_cache) % 10
FlushEvery == 10
\* "if n <= 8"
ExactLimit == 8
\* distance_km * 1000
MetersPerKm == 1000
\* float("inf"); every finite cost of the model is >= 0
Inf == -1

\* Python's None.  Coordinates are tuples <<lat, lon>> and geometries are
\* sequences of such tuples, so this value differs from every coordinate and
\* from every geometry, the empty list included.
None == << <<>> >>

\* entry.get("service") of an entry written by the OSRM branch
NoService == "none"

(* --------------------------- coordinates ------------------------------- *)

\* Coordinates are in units of 1e-7 degree, one digit more than the cache
\* key keeps.  CoordA and CoordA2 are distinct and agree to 6 decimals.
CoordA == <<11, 20>>
CoordA2 == <<12, 20>>
CoordB == <<27, 20>>

Coords == {CoordA, CoordA2, CoordB}

\* "loc["lat"] != 39.78373 and loc["lng"] != -100.445882", in the same units
SentinelLat == 397837300
SentinelLng == -1004458820

\* f"{x:.6f}": round to the nearest multiple of 1e-6 degree
Round6(x) == (x + 5) \div 10

\* f"{c[0]:.6f},{c[1]:.6f}"
FmtCoord(c) == <<Round6(c[1]), Round6(c[2])>>

\* a key that forgets the direction of the pair
CacheKeyUnordered(s, d) ==
    IF FmtCoord(s)[1] <= FmtCoord(d)[1]
    THEN <<FmtCoord(s), FmtCoord(d)>>
    ELSE <<FmtCoord(d), FmtCoord(s)>>

\* cache_key of get_route_with_geometry
CacheKey(s, d) == <<FmtCoord(s), FmtCoord(d)>>

\* a key of its own for the second provider
MapquestCacheKeyOwn(s, d) == <<FmtCoord(<<d[1], d[2]>>), FmtCoord(<<s[1], s[2]>>)>>

\* cache_key of get_mapquest_route
MapquestCacheKey(s, d) == <<FmtCoord(<<s[1], s[2]>>), FmtCoord(<<d[1], d[2]>>)>>

(* ----------------------- provider responses ---------------------------- *)

\* polyline.decode: the encoded polyline is a sequence of (dlat, dlon)
\* deltas, the decoded one the running sums
RECURSIVE PolylineDecodeFrom(_, _, _)
PolylineDecodeFrom(enc, lat, lon) ==
    IF enc = <<>> THEN <<>>
    ELSE LET p == <<lat + Head(enc)[1], lon + Head(enc)[2]>>
         IN  <<p>> \o PolylineDecodeFrom(Tail(enc), p[1], p[2])

PolylineDecode(enc) == PolylineDecodeFrom(enc, 0, 0)

\* [(shape_points[i], shape_points[i+1]) for i in range(0, len(shape_points), 2)]
\* for a list of even length (an odd length raises IndexError)
ShapePairs(sp) == [k \in 1..(Len(sp) \div 2) |-> <<sp[2 * k - 1], sp[2 * k]>>]

\* routes[0] of an OSRM answer with code "Ok"
OsrmRoutes ==
    { [duration |-> 60, distance |-> 500, geometry |-> << <<11, 20>>, <<8, 3>>, <<8, -3>> >>] }

\* data["route"] of a MapQuest answer: distance in km, time in s, flat shape
MapquestRoutes ==
    { [distance |-> 1, time |-> 120, shapePoints |-> <<11, 20, 27, 20>>] }

NoRoute == [duration |-> 0, distance |-> 0, geometry |-> <<>>]
NoMqRoute == [distance |-> 0, time |-> 0, shapePoints |-> <<>>]

\* What one OSRM request can do: requests.get raises ("exception"), a status
\* other than 200 ("status"), a body that is not JSON or lacks a key
\* ("malformed"), code other than "Ok" ("notok"), a geometry polyline.decode
\* raises on ("baddecode"), or a route ("ok").
OsrmOutcomes ==
    { [kind |-> k, route |-> NoRoute] :
          k \in {"exception", "status", "malformed", "notok", "baddecode"} }
    \cup { [kind |-> "ok", route |-> r] : r \in OsrmRoutes }

\* What one MapQuest request can do: "exception", "status", "malformed" as
\* above, no route or no distance in the body ("noroute"), a shape of fewer
\* than two numbers ("shortshape"), a shape of odd length ("oddshape", the
\* comprehension raises IndexError), or a route ("ok").
MapquestOutcomes ==
    { [kind |-> k, route |-> NoMqRoute] :
          k \in {"exception", "status", "malformed", "noroute", "shortshape", "oddshape"} }
    \cup { [kind |-> "ok", route |-> r] : r \in MapquestRoutes }

\* the kinds that leave the try block through `except Exception`
RaisingKinds == {"exception", "malformed", "baddecode", "oddshape"}

(* ------------------------------ cache ---------------------------------- *)

\* float("inf"), float("inf"), None
FailureSentinel == <<Inf, Inf, None>>

PutAlone(cache, key, entry) == [k \in {key} |-> entry]

\* geometry_cache[cache_key] = entry
Put(cache, key, entry) ==
    [k \in (DOMAIN cache) \cup {key} |-> IF k = key THEN entry ELSE cache[k]]

EmptyCache == <<>>

\* entries a previous run of the script wrote for other coordinate pairs
OldKey(i) == << <<900 + i, 0>>, <<950 + i, 0>> >>

OldEntry == [duration |-> 60, distance |-> 500,
             geometry |-> << <<11, 20>>, <<27, 20>> >>, service |-> NoService]

OldCache(n) == [k \in {OldKey(i) : i \in 1..n} |-> OldEntry]

\* the cache file: absent, unreadable by pickle.load, or a pickled mapping
MissingFile == [state |-> "missing", data |-> EmptyCache]
CorruptFile == [state |-> "corrupt", data |-> EmptyCache]
GoodFile(cache) == [state |-> "ok", data |-> cache]

\* the states route_geometries_cache.pkl can be in when the script starts
StartFiles ==
    {MissingFile, CorruptFile}
    \cup { GoodFile(OldCache(n)) : n \in {0, MaxOld - 1, MaxOld} }

LoadGeometryCacheUncaught(file) ==
    IF file.state = "ok" THEN file.data
    ELSE IF file.state = "corrupt" THEN None
    ELSE EmptyCache

\* load_geometry_cache()
LoadGeometryCache(file) ==
    IF file.state = "ok" THEN file.data ELSE EmptyCache

\* save_geometry_cache(cache): the file afterwards.  open() can fail (file
\* untouched), the dump can fail after open() truncated the file, or the
\* dump completes; every exception is caught.
SaveGeometryCache(cache, file) == {file, CorruptFile, GoodFile(cache)}

PeriodicSaveDueEarly(cache) ==
    Cardinality(DOMAIN cache) % FlushEvery = FlushEvery - 1

CacheLenHalved(cache) == Cardinality(DOMAIN cache) \div 2

\* len(geometry_cache)
CacheLen(cache) == Cardinality(DOMAIN cache)

\* "if len(geometry_cache) % 10 == 0: save_geometry_cache(geometry_cache)"
PeriodicSaveDue(cache) == CacheLen(cache) % FlushEvery = 0

PeriodicSave(cache, file) ==
    IF PeriodicSaveDue(cache) THEN SaveGeometryCache(cache, file) ELSE {file}

(* ------------------------------ state ---------------------------------- *)

VARIABLES
    \* the route cost layer
    geometry_cache,     \* the module-level dict: cache key -> entry
    cache_file,         \* route_geometries_cache.pkl
    pc,                 \* where the script is
    source,             \* arguments of the current get_route_with_geometry call
    destination,
    attempt,            \* loop variable of the retry loop being run
    result,             \* what the last call returned
    \* observations of the current call
    requests,           \* requests.get calls it made
    waits,              \* time.sleep calls it made
    last,               \* its last request: "none" before any, "ok" or "failed"
    hit,                \* it returned from the cache lookup
    \* observations of the cache
    flushed,            \* what the last completed save left in the file
    saves,              \* save_geometry_cache calls of this run
    new_entries,        \* entries this run has written to geometry_cache
    ncalls,             \* calls started so far
    marked,             \* one earlier call, remembered with its result
    \* the script
    api_key,            \* MAPQUEST_API_KEY is set
    addresses,          \* rows read from addresses.csv
    coords,             \* the list built by the geocoding loop
    geo_last,           \* location in the last geocoding response, None if it had none
    geo_defaults,       \* responses of the current geocode_address call that
                        \* carried MapQuest's default location
    df,                 \* the stops kept: [label, coord]
    networked,          \* a network request has been made in this run
    mi,                 \* i and j of the matrix loops
    mj,
    distance_matrix,
    duration_matrix,
    route_geometries,
    called,             \* the pairs (i, j) the matrix loops have called for, in order
    returns,            \* what each of those calls returned
    \* the optimizer
    n,
    todo,               \* permutations the exact search has not tried yet
    best_order,
    best_distance,
    route,
    current,
    unvisited,
    total_hours_num     \* the sum of durations along best_order (seconds)

ghostVars == <<flushed, saves, new_entries>>
costVars == <<geometry_cache, cache_file, source, destination, attempt, result,
              requests, waits, last, hit, ghostVars>>
harnessVars == <<ncalls, marked>>
runVars == <<api_key, addresses, coords, geo_last, geo_defaults, df,
             networked, mi, mj, distance_matrix, duration_matrix,
             route_geometries, called, returns>>
tourVars == <<n, todo, best_order, best_distance, route, current, unvisited,
              total_hours_num>>

vars == <<pc, costVars, harnessVars, runVars, tourVars>>

(* -------------------- get_route_with_geometry -------------------------- *)

\* the entry the OSRM branch caches
OsrmEntry(r, decoded) ==
    [duration |-> r.duration, distance |-> r.distance,
     geometry |-> decoded, service |-> NoService]

\* what the OSRM branch returns
OsrmResult(r, decoded) == <<r.duration, r.distance, decoded>>

\* the entry the MapQuest branch caches
MapquestEntryKm(r, pairs) ==
    [duration |-> r.time, distance |-> r.distance,
     geometry |-> pairs, service |-> "mapquest"]

MapquestEntry(r, pairs) ==
    [duration |-> r.time, distance |-> r.distance * MetersPerKm,
     geometry |-> pairs, service |-> "mapquest"]

\* what the MapQuest branch returns
MapquestResult(r, pairs) == <<r.time, r.distance * MetersPerKm, pairs>>

\* "return cached_data["duration"], cached_data["distance"], cached_data["geometry"]"
CachedResult(e) == <<e.duration, e.distance, e.geometry>>

\* status 200 and data["code"] == "Ok" and polyline.decode returned
OsrmSucceededLax(o) == o.kind \in {"ok", "notok"}

OsrmSucceeded(o) == o.kind = "ok"

\* status 200, a route with a distance, and a shape of at least two numbers
\* that pairs up
MapquestSucceeded(o) == o.kind = "ok"

\* "except Exception as e" of both routing loops: what it catches
CatchesTransportOnly(kind) == kind = "exception"

Catches(kind) == kind \in RaisingKinds

\* the lookup of get_route_with_geometry
CacheHitNever(cache, s, d) == FALSE

CacheHit(cache, s, d) == CacheKey(s, d) \in DOMAIN cache

\* the lookup of get_mapquest_route
MapquestCacheHit(cache, s, d) ==
    /\ MapquestCacheKey(s, d) \in DOMAIN cache
    /\ cache[MapquestCacheKey(s, d)].service = "mapquest"

\* get_route_with_geometry(s, d) up to the first request: the None test and
\* the cache lookup
EnterCall(s, d) ==
    /\ source' = s
    /\ destination' = d
    /\ attempt' = 0
    /\ requests' = 0
    /\ waits' = 0
    /\ last' = "none"
    /\ UNCHANGED <<geometry_cache, cache_file, ghostVars>>
    /\ IF s = None \/ d = None
       THEN /\ result' = FailureSentinel
            /\ hit' = FALSE
            /\ pc' = "returned"
       ELSE IF CacheHit(geometry_cache, s, d)
       THEN /\ result' = CachedResult(geometry_cache[CacheKey(s, d)])
            /\ hit' = TRUE
            /\ pc' = "returned"
       ELSE /\ result' = None
            /\ hit' = FALSE
            /\ pc' = "osrm"

\* one iteration of the OSRM loop; after the third failure the call goes on
\* into get_mapquest_route, whose own cache lookup comes first
OsrmRequest(o) ==
    /\ pc = "osrm"
    /\ requests' = requests + 1
    /\ last' = IF o.kind = "ok" THEN "ok" ELSE "failed"
    /\ UNCHANGED <<source, destination, hit>>
    /\ IF OsrmSucceeded(o)
       THEN LET decoded == PolylineDecode(o.route.geometry)
                cache2 == Put(geometry_cache, CacheKey(source, destination),
                              OsrmEntry(o.route, decoded))
            IN  /\ geometry_cache' = cache2
                /\ cache_file' \in PeriodicSave(cache2, cache_file)
                /\ new_entries' = new_entries + 1
                /\ saves' = IF PeriodicSaveDue(cache2) THEN saves + 1 ELSE saves
                /\ flushed' = IF PeriodicSaveDue(cache2) /\ cache_file' = GoodFile(cache2)
                              THEN cache2 ELSE flushed
                /\ result' = OsrmResult(o.route, decoded)
                /\ pc' = "returned"
                /\ UNCHANGED <<attempt, waits>>
       ELSE IF o.kind \in RaisingKinds /\ ~Catches(o.kind)
       THEN /\ pc' = "raised"
            /\ UNCHANGED <<geometry_cache, cache_file, ghostVars, result, attempt, waits>>
       ELSE /\ waits' = waits + 1
            /\ UNCHANGED <<geometry_cache, cache_file, ghostVars>>
            /\ IF attempt + 1 < Attempts
               THEN /\ attempt' = attempt + 1
                    /\ pc' = "osrm"
                    /\ UNCHANGED result
               ELSE /\ attempt' = 0
                    /\ IF MapquestCacheHit(geometry_cache, source, destination)
                       THEN /\ result' = CachedResult(
                                   geometry_cache[MapquestCacheKey(source, destination)])
                            /\ pc' = "returned"
                       ELSE /\ pc' = "mapquest"
                            /\ UNCHANGED result

\* one iteration of the MapQuest loop; after the third failure the call
\* returns the failure sentinel
MapquestRequest(o) ==
    /\ pc = "mapquest"
    /\ requests' = requests + 1
    /\ last' = IF o.kind = "ok" THEN "ok" ELSE "failed"
    /\ UNCHANGED <<source, destination, hit>>
    /\ IF MapquestSucceeded(o)
       THEN LET pairs == ShapePairs(o.route.shapePoints)
                cache2 == Put(geometry_cache, MapquestCacheKey(source, destination),
                              MapquestEntry(o.route, pairs))
            IN  /\ geometry_cache' = cache2
                /\ cache_file' \in PeriodicSave(cache2, cache_file)
                /\ new_entries' = new_entries + 1
                /\ saves' = IF PeriodicSaveDue(cache2) THEN saves + 1 ELSE saves
                /\ flushed' = IF PeriodicSaveDue(cache2) /\ cache_file' = GoodFile(cache2)
                              THEN cache2 ELSE flushed
                /\ result' = MapquestResult(o.route, pairs)
                /\ pc' = "returned"
                /\ UNCHANGED <<attempt, waits>>
       ELSE IF o.kind \in RaisingKinds /\ ~Catches(o.kind)
       THEN /\ pc' = "raised"
            /\ UNCHANGED <<geometry_cache, cache_file, ghostVars, result, attempt, waits>>
       ELSE /\ waits' = waits + 1
            /\ UNCHANGED <<geometry_cache, cache_file, ghostVars>>
            /\ IF attempt + 1 < Attempts
               THEN /\ attempt' = attempt + 1
                    /\ pc' = "mapquest"
                    /\ UNCHANGED result
               ELSE /\ attempt' = attempt
                    /\ result' = FailureSentinel
                    /\ pc' = "returned"

(* ---------------------- the route cost layer --------------------------- *)

NoMark == [id |-> 0, source |-> None, destination |-> None, result |-> None]

\* a caller asks for the cost of a pair
Call(s, d) ==
    /\ pc \in {"ready", "returned"}
    /\ ncalls < MaxCalls
    /\ ncalls' = ncalls + 1
    /\ EnterCall(s, d)
    /\ UNCHANGED <<marked, runVars, tourVars>>

\* remember the call that has just returned
Mark ==
    /\ pc = "returned"
    /\ marked = NoMark
    /\ marked' = [id |-> ncalls, source |-> source, destination |-> destination,
                  result |-> result]
    /\ UNCHANGED <<pc, costVars, ncalls, runVars, tourVars>>

CostOsrm ==
    \E o \in OsrmOutcomes :
        /\ OsrmRequest(o)
        /\ UNCHANGED <<harnessVars, runVars, tourVars>>

CostMapquest ==
    \E o \in MapquestOutcomes :
        /\ MapquestRequest(o)
        /\ UNCHANGED <<harnessVars, runVars, tourVars>>

\* values of the variables a specification does not use
IdleRun ==
    /\ api_key = TRUE
    /\ addresses = <<>>
    /\ coords = <<>>
    /\ df = <<>>
    /\ networked = FALSE
    /\ mi = 0
    /\ mj = 0
    /\ distance_matrix = <<>>
    /\ duration_matrix = <<>>
    /\ route_geometries = <<>>
    /\ geo_last = None
    /\ geo_defaults = 0
    /\ called = <<>>
    /\ returns = <<>>

IdleTour ==
    /\ n = 0
    /\ todo = <<>>
    /\ best_order = None
    /\ best_distance = Inf
    /\ route = <<>>
    /\ current = 0
    /\ unvisited = {}
    /\ total_hours_num = 0

IdleCall ==
    /\ source = None
    /\ destination = None
    /\ attempt = 0
    /\ result = None
    /\ requests = 0
    /\ waits = 0
    /\ last = "none"
    /\ hit = FALSE
    /\ ncalls = 0
    /\ marked = NoMark
    /\ saves = 0
    /\ new_entries = 0

\* the module after import, with the credential present
Init ==
    /\ cache_file \in StartFiles
    /\ geometry_cache = LoadGeometryCache(cache_file)
    /\ flushed = LoadGeometryCache(cache_file)
    /\ pc = "ready"
    /\ IdleCall
    /\ IdleRun
    /\ IdleTour

Next ==
    \/ \E s \in Coords \cup {None}, d \in Coords \cup {None} : Call(s, d)
    \/ CostOsrm
    \/ CostMapquest
    \/ Mark

Spec == Init /\ [][Next]_vars

(* ------------------- the route cost layer with crashes ----------------- *)

\* the process is killed between two steps of the program
Kill ==
    /\ pc \in {"ready", "osrm", "mapquest", "returned"}
    /\ pc' = "killed"
    /\ UNCHANGED <<costVars, harnessVars, runVars, tourVars>>

\* the process is killed inside a periodic save_geometry_cache, after
\* open(GEOMETRY_CACHE_FILE, 'wb') has truncated the file and before
\* pickle.dump has written all of it
KillInSave(cache2) ==
    /\ PeriodicSaveDue(cache2)
    /\ geometry_cache' = cache2
    /\ cache_file' = CorruptFile
    /\ new_entries' = new_entries + 1
    /\ saves' = saves + 1
    /\ pc' = "killed"
    /\ requests' = requests + 1
    /\ last' = "ok"
    /\ UNCHANGED <<flushed, source, destination, attempt, result, waits, hit,
                   harnessVars, runVars, tourVars>>

KillInOsrmSave ==
    /\ pc = "osrm"
    /\ \E o \in OsrmOutcomes :
          /\ OsrmSucceeded(o)
          /\ KillInSave(Put(geometry_cache, CacheKey(source, destination),
                            OsrmEntry(o.route, PolylineDecode(o.route.geometry))))

KillInMapquestSave ==
    /\ pc = "mapquest"
    /\ \E o \in MapquestOutcomes :
          /\ MapquestSucceeded(o)
          /\ KillInSave(Put(geometry_cache, MapquestCacheKey(source, destination),
                            MapquestEntry(o.route, ShapePairs(o.route.shapePoints))))

NextCrash ==
    \/ Next
    \/ Kill
    \/ KillInOsrmSave
    \/ KillInMapquestSave

SpecCrash == Init /\ [][NextCrash]_vars

(* ------------- the route cost layer over many fresh pairs -------------- *)

\* the source of the k-th call: a coordinate no earlier call used, and apart
\* from the others in the sixth decimal
FlushCoord(k) == <<100 * k, 0>>

\* OSRM answers with a route or with an error status, MapQuest with a route
FlushOsrmOutcomes == {o \in OsrmOutcomes : o.kind \in {"ok", "status"}}

FlushMapquestOutcomes == {o \in MapquestOutcomes : o.kind = "ok"}

\* a caller asks for the cost of a pair that is not in the cache
FlushCall ==
    /\ pc \in {"ready", "returned"}
    /\ ncalls < MaxFlushCalls
    /\ ncalls' = ncalls + 1
    /\ EnterCall(FlushCoord(ncalls + 1), CoordB)
    /\ UNCHANGED <<marked, runVars, tourVars>>

FlushOsrm ==
    \E o \in FlushOsrmOutcomes :
        /\ OsrmRequest(o)
        /\ UNCHANGED <<harnessVars, runVars, tourVars>>

FlushMapquest ==
    \E o \in FlushMapquestOutcomes :
        /\ MapquestRequest(o)
        /\ UNCHANGED <<harnessVars, runVars, tourVars>>

NextFlush ==
    \/ FlushCall
    \/ FlushOsrm
    \/ FlushMapquest

SpecFlush == Init /\ [][NextFlush]_vars

(* ---------------------------- the optimizer ---------------------------- *)

\* float addition and comparison on costs that may be float("inf")
AddSkippingInf(a, b) == IF a = Inf THEN b ELSE IF b = Inf THEN a ELSE a + b

Add(a, b) == IF a = Inf \/ b = Inf THEN Inf ELSE a + b

GreaterThan(a, b) == b # Inf /\ (a = Inf \/ a > b)

Less(a, b) == a # Inf /\ (b = Inf \/ a < b)

\* sum(matrix[r[i], r[i+1]] for i in range(len(r)-1))
RECURSIVE SumAlong(_, _, _)
SumAlong(matrix, r, i) ==
    IF i >= Len(r) THEN 0
    ELSE Add(matrix[<<r[i], r[i + 1]>>], SumAlong(matrix, r, i + 1))

TourDistance(matrix, r) == SumAlong(matrix, r, 1)

\* list(range(1, n))
Locations(m) == [k \in 1..(m - 1) |-> k]

\* list(permutations(seq)): in lexicographic order of positions
RemoveAt(seq, i) == SubSeq(seq, 1, i - 1) \o SubSeq(seq, i + 1, Len(seq))

PrependAll(x, ps) == [k \in 1..Len(ps) |-> <<x>> \o ps[k]]

RECURSIVE PermsInOrder(_), PermsFrom(_, _)
PermsFrom(seq, i) ==
    IF i > Len(seq) THEN <<>>
    ELSE PrependAll(seq[i], PermsInOrder(RemoveAt(seq, i)))
         \o PermsFrom(seq, i + 1)

PermsInOrder(seq) ==
    IF seq = <<>> THEN << <<>> >> ELSE PermsFrom(seq, 1)

\* [warehouse_idx] + list(perm) + [warehouse_idx]
ClosedRoute(perm) == <<0>> \o perm \o <<0>>

NearestUnvisitedHighest(matrix, cur, unv) ==
    CHOOSE x \in unv :
        \A y \in unv :
            /\ ~Less(matrix[<<cur, y>>], matrix[<<cur, x>>])
            /\ (matrix[<<cur, y>>] = matrix[<<cur, x>>]) => x >= y

\* min(unvisited, key=lambda x: distance_matrix[current, x]): the first
\* stop of least key in the set's iteration order, which for a set of small
\* ints is ascending
NearestUnvisited(matrix, cur, unv) ==
    CHOOSE x \in unv :
        \A y \in unv :
            /\ ~Less(matrix[<<cur, y>>], matrix[<<cur, x>>])
            /\ (matrix[<<cur, y>>] = matrix[<<cur, x>>]) => x <= y

\* "route.append(warehouse_idx)" after the nearest-neighbour loop
RouteLeftOpen(r) == r

ReturnToWarehouse(r) == Append(r, 0)

\* "if n <= 8" and the initialisation of the branch taken
Optimize ==
    /\ pc = "optimize"
    /\ IF n <= ExactLimit
       THEN /\ todo' = PermsInOrder(Locations(n))
            /\ best_order' = None
            /\ best_distance' = Inf
            /\ pc' = "exact"
            /\ UNCHANGED <<route, current, unvisited>>
       ELSE /\ current' = 0
            /\ unvisited' = 1..(n - 1)
            /\ route' = <<0>>
            /\ pc' = "nearest"
            /\ UNCHANGED <<todo, best_order, best_distance>>
    /\ UNCHANGED <<costVars, harnessVars, runVars, n, total_hours_num>>

\* one iteration of "for perm in permutations(locations)"
ExactStep ==
    /\ pc = "exact"
    /\ todo # <<>>
    /\ LET r == ClosedRoute(Head(todo))
           distance == TourDistance(distance_matrix, r)
       IN  /\ route' = r
           /\ IF Less(distance, best_distance)
              THEN /\ best_distance' = distance
                   /\ best_order' = r
              ELSE UNCHANGED <<best_distance, best_order>>
    /\ todo' = Tail(todo)
    /\ UNCHANGED <<pc, costVars, harnessVars, runVars, n, current, unvisited,
                   total_hours_num>>

\* the permutations are exhausted
ExactDone ==
    /\ pc = "exact"
    /\ todo = <<>>
    /\ pc' = "summary"
    /\ UNCHANGED <<costVars, harnessVars, runVars, tourVars>>

\* one iteration of "while unvisited"
NearestStep ==
    /\ pc = "nearest"
    /\ unvisited # {}
    /\ LET next_stop == NearestUnvisited(distance_matrix, current, unvisited)
       IN  /\ route' = Append(route, next_stop)
           /\ unvisited' = unvisited \ {next_stop}
           /\ current' = next_stop
    /\ UNCHANGED <<pc, costVars, harnessVars, runVars, n, todo, best_order,
                   best_distance, total_hours_num>>

\* the loop is over: back to the warehouse, and the length of the tour
NearestDone ==
    /\ pc = "nearest"
    /\ unvisited = {}
    /\ LET r == ReturnToWarehouse(route)
       IN  /\ route' = r
           /\ best_order' = r
           /\ best_distance' = TourDistance(distance_matrix, r)
    /\ pc' = "summary"
    /\ UNCHANGED <<costVars, harnessVars, runVars, n, todo, current, unvisited,
                   total_hours_num>>

\* the route summary: len(best_order) raises TypeError when best_order is None
Summary ==
    /\ pc = "summary"
    /\ IF best_order = None
       THEN /\ pc' = "crashed"
            /\ UNCHANGED total_hours_num
       ELSE /\ total_hours_num' = TourDistance(duration_matrix, best_order)
            /\ pc' = "render"
    /\ UNCHANGED <<costVars, harnessVars, runVars, n, todo, best_order,
                   best_distance, route, current, unvisited>>

\* create_interactive_map and route_map.save: the script ends
Render ==
    /\ pc = "render"
    /\ pc' = "done"
    /\ UNCHANGED <<costVars, harnessVars, runVars, tourVars>>

(* ------------------- the optimizer on given matrices ------------------- *)

Stops(m) == 0..(m - 1)

StopPairs(m) == Stops(m) \X Stops(m)

\* np.zeros((n, n))
Zeros(m) == [p \in StopPairs(m) |-> 0]

\* the matrix of the 3-stop scenario: d(0,1)=10, d(0,2)=15, d(1,2)=5, symmetric
ExampleMatrix ==
    [p \in StopPairs(3) |->
        IF p[1] = p[2] THEN 0
        ELSE IF {p[1], p[2]} = {0, 1} THEN 10
        ELSE IF {p[1], p[2]} = {0, 2} THEN 15
        ELSE 5]

\* sets of directed pairs no provider found a route for
BlockedSets(m) ==
    {{}}
    \cup {{p} : p \in {q \in StopPairs(m) : q[1] # q[2]}}
    \cup {{q \in StopPairs(m) : q[1] = k} : k \in Stops(m)}
    \cup {{q \in StopPairs(m) : q[2] = k} : k \in Stops(m)}

\* a matrix as the build leaves it: zero diagonal, inf on the blocked pairs
WeightedMatrix(m, a, b, blocked) ==
    [p \in StopPairs(m) |->
        IF p[1] = p[2] THEN 0
        ELSE IF p \in blocked THEN Inf
        ELSE 1 + ((a * p[1] + b * p[2] + p[1] * p[2]) % MaxWeight)]

Matrices(m) ==
    { WeightedMatrix(m, a, b, blocked) :
          a \in 0..MaxSeed, b \in 0..MaxSeed, blocked \in BlockedSets(m) }
    \cup (IF m = 3 THEN {ExampleMatrix} ELSE {})

\* durations that go with a distance matrix: inf exactly where it is inf
DurationsFor(matrix) ==
    [p \in DOMAIN matrix |-> IF matrix[p] = Inf THEN Inf ELSE 2 * matrix[p]]

TourSizes ==
    (2..MaxExactStops) \cup ((ExactLimit + 1)..(ExactLimit + MaxHeuristicExtra))

\* the script when the matrix has been built
InitTour ==
    /\ pc = "optimize"
    /\ n \in TourSizes
    /\ distance_matrix \in Matrices(n)
    /\ duration_matrix = DurationsFor(distance_matrix)
    /\ route_geometries = <<>>
    /\ api_key = TRUE
    /\ addresses = <<>>
    /\ coords = <<>>
    /\ df = <<>>
    /\ networked = FALSE
    /\ mi = 0
    /\ mj = 0
    /\ cache_file = MissingFile
    /\ geometry_cache = EmptyCache
    /\ flushed = EmptyCache
    /\ geo_last = None
    /\ geo_defaults = 0
    /\ called = <<>>
    /\ returns = <<>>
    /\ IdleCall
    /\ todo = <<>>
    /\ best_order = None
    /\ best_distance = Inf
    /\ route = <<>>
    /\ current = 0
    /\ unvisited = {}
    /\ total_hours_num = 0

NextTour ==
    \/ Optimize
    \/ ExactStep
    \/ ExactDone
    \/ NearestStep
    \/ NearestDone
    \/ Summary
    \/ Render

SpecTour == InitTour /\ [][NextTour]_vars

\* the optimizer's loops are run to their end
SpecTourFair == SpecTour /\ WF_vars(NextTour)

(* ------------------------------ the script ----------------------------- *)

\* what the geocoder can place an address at: a real location, MapQuest's
\* default location, or a location sharing one component with the default
DefaultLocation == <<SentinelLat, SentinelLng>>

GeoLocs ==
    Coords \cup {DefaultLocation, <<SentinelLat, 20>>, <<11, SentinelLng>>}

\* What one geocoding request can do: requests.get raises ("exception"), a
\* status other than 200 ("status"), a body without the expected keys
\* ("malformed"), no result or no location ("empty"), or a location ("ok").
GeocodeOutcomes ==
    { [kind |-> k, loc |-> None] : k \in {"exception", "status", "malformed", "empty"} }
    \cup { [kind |-> "ok", loc |-> l] : l \in GeoLocs }

NotDefaultLocationUnchecked(loc) == TRUE

\* "if loc["lat"] != 39.78373 and loc["lng"] != -100.445882"
NotDefaultLocation(loc) == loc[1] # SentinelLat /\ loc[2] # SentinelLng

\* the attempt returns a coordinate
GeocodeSucceeded(o) == o.kind = "ok" /\ NotDefaultLocation(o.loc)

TruthyUnlessNone(geometry) == geometry # None

\* "if geometry:"
Truthy(geometry) == geometry # None /\ geometry # <<>>

\* rows of addresses.csv: the labels 1..k, the first being the warehouse
AddressRows(k) == [i \in 1..k |-> i]

\* the credential check and the load of the cache at import; an exception
\* that load_geometry_cache lets out ends the script
Startup ==
    /\ pc = "start"
    /\ IF ~api_key
       THEN /\ pc' = "exit"
            /\ UNCHANGED geometry_cache
       ELSE IF LoadGeometryCache(cache_file) = None
       THEN /\ pc' = "raised"
            /\ UNCHANGED geometry_cache
       ELSE /\ geometry_cache' = LoadGeometryCache(cache_file)
            /\ pc' = "read"
    /\ UNCHANGED <<cache_file, ghostVars, source, destination, attempt, result, requests,
                   waits, last, hit, harnessVars, runVars, tourVars>>

\* "if not addresses: exit(1)"
ReadAddresses ==
    /\ pc = "read"
    /\ pc' = IF addresses = <<>> THEN "exit" ELSE "geocode"
    /\ UNCHANGED <<costVars, harnessVars, runVars, tourVars>>

\* the addresses that have a coordinate so far
Geocoded(cs) == Cardinality({k \in 1..Len(cs) : cs[k] # None})

\* one attempt of geocode_address for the next address of the geocoding
\* loop; the call ends with a coordinate, or with None after the third
\* failed attempt, and the loop ends after the last address
Geocode(o) ==
    /\ pc = "geocode"
    /\ networked' = TRUE
    /\ GeocodeSucceeded(o) => Geocoded(coords) < MaxStops
    /\ requests' = IF attempt = 0 THEN 1 ELSE requests + 1
    /\ geo_last' = o.loc
    /\ geo_defaults' = (IF attempt = 0 THEN 0 ELSE geo_defaults)
                        + (IF o.loc = DefaultLocation THEN 1 ELSE 0)
    /\ IF GeocodeSucceeded(o)
       THEN /\ coords' = Append(coords, o.loc)
            /\ attempt' = 0
            /\ waits' = IF attempt = 0 THEN 0 ELSE waits
       ELSE /\ waits' = IF attempt = 0 THEN 1 ELSE waits + 1
            /\ IF attempt + 1 < Attempts
               THEN /\ attempt' = attempt + 1
                    /\ UNCHANGED coords
               ELSE /\ attempt' = 0
                    /\ coords' = Append(coords, None)
    /\ pc' = IF Len(coords') = Len(addresses) THEN "filter" ELSE "geocode"
    /\ UNCHANGED <<geometry_cache, cache_file, ghostVars, source, destination, result, last,
                   hit, harnessVars, api_key, addresses, df, mi, mj,
                   distance_matrix, duration_matrix, route_geometries, called,
                   returns, tourVars>>

ValidEntriesUnfiltered(rows, cs) ==
    [k \in 1..Len(rows) |-> [label |-> rows[k], coord |-> cs[k]]]

\* df[valid_entries].reset_index(drop=True)
ValidEntries(rows, cs) ==
    SelectSeq([k \in 1..Len(rows) |-> [label |-> rows[k], coord |-> cs[k]]],
              LAMBDA e : e.coord # None)

\* the stops without a coordinate are dropped; "if len(df) <= 1: exit(1)";
\* the matrices are created
Filter ==
    /\ pc = "filter"
    /\ LET kept == ValidEntries(addresses, coords)
       IN  /\ df' = kept
           /\ IF Len(kept) <= 1
              THEN /\ pc' = "exit"
                   /\ UNCHANGED <<n, mi, mj, distance_matrix, duration_matrix,
                                  route_geometries>>
              ELSE /\ n' = Len(kept)
                   /\ distance_matrix' = Zeros(Len(kept))
                   /\ duration_matrix' = Zeros(Len(kept))
                   /\ route_geometries' = <<>>
                   /\ mi' = 0
                   /\ mj' = 1
                   /\ pc' = "matrix"
    /\ UNCHANGED <<costVars, harnessVars, api_key, addresses, coords, geo_last,
                   geo_defaults, networked, called, returns, todo,
                   best_order, best_distance, route, current, unvisited,
                   total_hours_num>>

\* get_route_with_geometry(df.iloc[i]["Coords"], df.iloc[j]["Coords"])
MatrixCall ==
    /\ pc = "matrix"
    /\ EnterCall(df[mi + 1].coord, df[mj + 1].coord)
    /\ called' = Append(called, <<mi, mj>>)
    /\ UNCHANGED <<harnessVars, api_key, addresses, coords, geo_last, geo_defaults,
                   df, networked, mi, mj, distance_matrix, duration_matrix,
                   route_geometries, returns, tourVars>>

PairsAfterWithDiagonal(m, i0, j0) ==
    { p \in StopPairs(m) : p[1] > i0 \/ (p[1] = i0 /\ p[2] > j0) }

\* the pairs (i, j), i # j, that the two loops reach after (i0, j0)
PairsAfter(m, i0, j0) ==
    { p \in StopPairs(m) : p[1] # p[2] /\ (p[1] > i0 \/ (p[1] = i0 /\ p[2] > j0)) }

\* the first of them
FirstPair(ps) ==
    CHOOSE p \in ps : \A q \in ps : p[1] < q[1] \/ (p[1] = q[1] /\ p[2] <= q[2])

\* the body of the loops after the call: the matrices and route_geometries,
\* then on to the next pair or out of the loops
MatrixStore ==
    /\ pc = "returned"
    /\ distance_matrix' = [distance_matrix EXCEPT ![<<mi, mj>>] = result[2]]
    /\ duration_matrix' = [duration_matrix EXCEPT ![<<mi, mj>>] = result[1]]
    /\ route_geometries' =
          IF Truthy(result[3]) THEN Put(route_geometries, <<mi, mj>>, result[3])
          ELSE route_geometries
    /\ LET rest == PairsAfter(n, mi, mj)
       IN  IF rest = {}
           THEN /\ pc' = "optimize"
                /\ UNCHANGED <<mi, mj>>
           ELSE /\ mi' = FirstPair(rest)[1]
                /\ mj' = FirstPair(rest)[2]
                /\ pc' = "matrix"
    /\ returns' = Put(returns, <<mi, mj>>, result)
    /\ UNCHANGED <<costVars, harnessVars, api_key, addresses, coords, geo_last,
                   geo_defaults, df, networked, called, tourVars>>

RunOsrm ==
    \E o \in OsrmOutcomes :
        /\ OsrmRequest(o)
        /\ networked' = TRUE
        /\ UNCHANGED <<harnessVars, api_key, addresses, coords, geo_last,
                       geo_defaults, df, mi, mj, distance_matrix, duration_matrix,
                       route_geometries, called, returns, tourVars>>

RunMapquest ==
    \E o \in MapquestOutcomes :
        /\ MapquestRequest(o)
        /\ networked' = TRUE
        /\ UNCHANGED <<harnessVars, api_key, addresses, coords, geo_last,
                       geo_defaults, df, mi, mj, distance_matrix, duration_matrix,
                       route_geometries, called, returns, tourVars>>

\* "for i in range(n): for j in range(n): if i != j": the pairs in the order
\* of the loops
LoopPairs(m) ==
    SelectSeq([k \in 1..(m * m) |-> <<(k - 1) \div m, (k - 1) % m>>],
              LAMBDA p : p[1] # p[2])

\* the script about to run, on an input of 0..MaxRows addresses of which at
\* most MaxStops get a coordinate
InitRun ==
    /\ pc = "start"
    /\ api_key \in BOOLEAN
    /\ addresses \in {AddressRows(k) : k \in 0..MaxRows}
    /\ cache_file \in StartFiles
    /\ geometry_cache = EmptyCache
    /\ flushed = LoadGeometryCache(cache_file)
    /\ geo_last = None
    /\ geo_defaults = 0
    /\ called = <<>>
    /\ returns = <<>>
    /\ IdleCall
    /\ coords = <<>>
    /\ df = <<>>
    /\ networked = FALSE
    /\ mi = 0
    /\ mj = 0
    /\ distance_matrix = <<>>
    /\ duration_matrix = <<>>
    /\ route_geometries = <<>>
    /\ IdleTour

\* MaxStops stays below ExactLimit, so the run takes the exact search; the
\* nearest-neighbour branch is run under SpecTour
NextRun ==
    \/ Startup
    \/ ReadAddresses
    \/ \E o \in GeocodeOutcomes : Geocode(o)
    \/ Filter
    \/ MatrixCall
    \/ RunOsrm
    \/ RunMapquest
    \/ MatrixStore
    \/ Optimize
    \/ ExactStep
    \/ ExactDone
    \/ Summary
    \/ Render

SpecRun == InitRun /\ [][NextRun]_vars

(* --------------------- the matrix build on given stops ----------------- *)

\* an OSRM route whose encoded polyline is the empty string;
\* polyline.decode("") is []
EmptyPathRoute == [duration |-> 30, distance |-> 200, geometry |-> <<>>]

\* the OSRM answers of the matrix build, that one included
OsrmBuildOutcomes == OsrmOutcomes \cup {[kind |-> "ok", route |-> EmptyPathRoute]}

\* coordinates of the stops the build is run on
BuildCoords == <<CoordA, CoordB, CoordA2>>

BuildStops(m) ==
    [i \in 1..m |-> [label |-> i, coord |-> BuildCoords[((i - 1) % Len(BuildCoords)) + 1]]]

BuildOsrm ==
    \E o \in OsrmBuildOutcomes :
        /\ OsrmRequest(o)
        /\ networked' = TRUE
        /\ UNCHANGED <<harnessVars, api_key, addresses, coords, geo_last,
                       geo_defaults, df, mi, mj, distance_matrix, duration_matrix,
                       route_geometries, called, returns, tourVars>>

\* the script at line 1037, every address geocoded
InitBuild ==
    /\ pc = "matrix"
    /\ n \in 2..MaxStops
    /\ df = BuildStops(n)
    /\ addresses = AddressRows(n)
    /\ coords = [i \in 1..n |-> df[i].coord]
    /\ api_key = TRUE
    /\ networked = TRUE
    /\ geo_last = coords[n]
    /\ geo_defaults = 0
    /\ mi = 0
    /\ mj = 1
    /\ distance_matrix = Zeros(n)
    /\ duration_matrix = Zeros(n)
    /\ route_geometries = <<>>
    /\ called = <<>>
    /\ returns = <<>>
    /\ cache_file \in StartFiles
    /\ geometry_cache = LoadGeometryCache(cache_file)
    /\ flushed = LoadGeometryCache(cache_file)
    /\ IdleCall
    /\ todo = <<>>
    /\ best_order = None
    /\ best_distance = Inf
    /\ route = <<>>
    /\ current = 0
    /\ unvisited = {}
    /\ total_hours_num = 0

NextBuild ==
    \/ MatrixCall
    \/ BuildOsrm
    \/ RunMapquest
    \/ MatrixStore

SpecBuild == InitBuild /\ [][NextBuild]_vars

(* ==================== properties of the route cost layer =============== *)

\* C1: get_route_with_geometry never raises: whatever the up-to-3 OSRM and
\* up-to-3 MapQuest requests do, and for absent coordinates, the call returns
\* a triple, and when it was not answered from the cache and no request
\* succeeded the triple is (inf, inf, None).
C1_NeverRaises ==
    /\ pc # "raised"
    /\ (pc = "returned") =>
          /\ Len(result) = 3
          /\ (~hit /\ last # "ok") => result = FailureSentinel

\* all six requests failed and the call returned the sentinel
C1_Witness ==
    /\ pc = "returned"
    /\ requests = 2 * Attempts
    /\ last = "failed"
    /\ result = FailureSentinel

\* a call made after the marked call, with the same arguments, has returned
SecondCallOfMarked ==
    /\ pc = "returned"
    /\ marked.id > 0
    /\ ncalls > marked.id
    /\ source = marked.source
    /\ destination = marked.destination

\* C2 as claimed: whenever route_cost(A,B) is called twice in a run, the
\* second call makes no network request and returns what the first returned.
C2_SecondCallCached ==
    SecondCallOfMarked => (requests = 0 /\ result = marked.result)

\* C2 amended: the same, when the first call returned a route (or a
\* coordinate was absent); a first call that ended in the failure sentinel
\* after querying the providers caches nothing.
C2_SecondCallCachedAfterSuccess ==
    (/\ SecondCallOfMarked
     /\ (marked.result # FailureSentinel \/ source = None \/ destination = None))
    => (requests = 0 /\ result = marked.result)

\* a second call answered from the entry the first call's route left
C2_Witness ==
    /\ SecondCallOfMarked
    /\ marked.result # FailureSentinel
    /\ hit
    /\ requests = 0
    /\ result = marked.result

\* C8 as claimed: an entry obtained from MapQuest is stored under a key that
\* differs from the OSRM key of the same directed pair.
C8_SecondaryKeyDistinct ==
    [][ (pc = "mapquest" /\ geometry_cache' # geometry_cache)
        => \E k \in DOMAIN geometry_cache' :
              /\ k \notin DOMAIN geometry_cache
              /\ k # CacheKey(source, destination) ]_vars

\* C8 amended: an entry obtained from MapQuest is stored under the same key
\* as an OSRM entry of that directed pair, with the provider recorded in the
\* entry (service = "mapquest"); it is written only when the key has no
\* entry, and no other entry changes.
C8_SecondarySharesKey ==
    [][ (pc = "mapquest" /\ geometry_cache' # geometry_cache)
        => LET k == CacheKey(source, destination)
           IN  /\ k \notin DOMAIN geometry_cache
               /\ DOMAIN geometry_cache' = DOMAIN geometry_cache \cup {k}
               /\ geometry_cache'[k].service = "mapquest"
               /\ \A x \in DOMAIN geometry_cache :
                      geometry_cache'[x] = geometry_cache[x] ]_vars

\* a call that MapQuest answered has returned and its entry is in the cache
C8_Witness ==
    /\ pc = "returned"
    /\ requests > Attempts
    /\ last = "ok"
    /\ CacheKey(source, destination) \in DOMAIN geometry_cache
    /\ geometry_cache[CacheKey(source, destination)].service = "mapquest"

EntryValid(e) == e.duration # Inf /\ e.distance # Inf /\ e.geometry # None

CacheValid(cache) == \A k \in DOMAIN cache : EntryValid(cache[k])

\* C9: every entry of the in-memory cache and of the file has finite
\* duration and distance and a geometry, and the cache and the file change
\* only in the step in which a request succeeds and the call returns its
\* route: a call that ends in the failure sentinel leaves both unchanged.
C9_OnlySuccessCached ==
    /\ [](CacheValid(geometry_cache) /\ CacheValid(cache_file.data))
    /\ [][ (geometry_cache' # geometry_cache \/ cache_file' # cache_file)
           => (pc' = "returned" /\ last' = "ok" /\ result' # FailureSentinel) ]_vars

\* a call exhausted both providers while the cache held entries of this run
C9_Witness ==
    /\ pc = "returned"
    /\ requests = 2 * Attempts
    /\ result = FailureSentinel
    /\ \E k \in DOMAIN geometry_cache : k[1] \in {FmtCoord(c) : c \in Coords}

\* the first call of the run, for (A,B), returned a route, and the second
\* call, for (B,A), has returned
ReverseOfFirstCall ==
    /\ pc = "returned"
    /\ ncalls = 2
    /\ marked.id = 1
    /\ marked.result # FailureSentinel
    /\ source = marked.destination
    /\ destination = marked.source

\* what C10 says of the reverse call: it was a miss that queried a provider,
\* and when it found a route the two entries are separate
ReverseCallMissed ==
    /\ ~hit
    /\ requests >= 1
    /\ (result # FailureSentinel) =>
          /\ CacheKey(source, destination) # CacheKey(destination, source)
          /\ CacheKey(source, destination) \in DOMAIN geometry_cache
          /\ CacheKey(destination, source) \in DOMAIN geometry_cache

\* C10 as claimed: for distinct coordinates A and B, after route_cost(A,B)
\* cached its route, route_cost(B,A) is a cache miss that queries a provider
\* and the two entries are stored separately.
C10_Directional ==
    (ReverseOfFirstCall /\ source # destination) => ReverseCallMissed

\* C10 amended: the same for coordinates A and B that differ after rounding
\* to 6 decimals (two coordinates that agree to 6 decimals share one key).
C10_DirectionalRounded ==
    (ReverseOfFirstCall /\ FmtCoord(source) # FmtCoord(destination))
    => ReverseCallMissed

\* route_cost(B,A) found its own route after route_cost(A,B) had
C10_Witness ==
    /\ ReverseOfFirstCall
    /\ FmtCoord(source) # FmtCoord(destination)
    /\ result # FailureSentinel
    /\ requests >= 1

(* ======================= properties of the optimizer =================== *)

\* the permutations of 1..m-1, as a set
PermutationSet(m) ==
    { p \in [1..(m - 1) -> 1..(m - 1)] :
          \A i \in 1..(m - 1), j \in 1..(m - 1) : (p[i] = p[j]) => (i = j) }

\* every closed tour over m stops
ClosedTours(m) == { <<0>> \o p \o <<0>> : p \in PermutationSet(m) }

\* r starts and ends at the depot and visits each other stop exactly once
IsTour(r, m) ==
    /\ Len(r) = m + 1
    /\ r[1] = 0
    /\ r[m + 1] = 0
    /\ \A s \in 1..(m - 1) : Cardinality({k \in 2..m : r[k] = s}) = 1

AtMost(a, b) == b = Inf \/ (a # Inf /\ a <= b)

Optimized == pc \in {"summary", "render", "done"}

EveryTourInfinite ==
    \A r \in ClosedTours(n) : TourDistance(distance_matrix, r) = Inf

\* C4: for n <= 8, when every closed tour has an unreachable edge, the
\* optimizer still produces a tour [depot, permutation..., depot] of infinite
\* total distance and the run reports it instead of failing.
C4_InfiniteTourReported ==
    /\ pc # "crashed"
    /\ (Optimized /\ n <= ExactLimit /\ EveryTourInfinite) =>
          (IsTour(best_order, n) /\ best_distance = Inf)

\* C5: for n <= 8 and a matrix with a finite closed tour, the exact search
\* returns a tour whose total distance is its own length and is at most the
\* length of every closed tour; on the 3-stop example the total is 30.
C5_ExactIsMinimal ==
    (Optimized /\ n <= ExactLimit /\ ~EveryTourInfinite) =>
        /\ IsTour(best_order, n)
        /\ best_distance = TourDistance(distance_matrix, best_order)
        /\ \A r \in ClosedTours(n) :
               AtMost(best_distance, TourDistance(distance_matrix, r))
        /\ (distance_matrix = ExampleMatrix) => (best_distance = 30)

\* the exact search has run on the 3-stop example
C5_Witness ==
    /\ pc = "summary"
    /\ n = 3
    /\ distance_matrix = ExampleMatrix
    /\ best_order \in {<<0, 1, 2, 0>>, <<0, 2, 1, 0>>}

\* C6: for n > 8 and any matrix, infinite entries included, the
\* nearest-neighbour loop terminates, and the tour starts at the depot, ends
\* at the depot, has the depot nowhere else and every other stop exactly
\* once (length n+1).
C6_NearestVisitsAll ==
    /\ []((Optimized /\ n > ExactLimit) => IsTour(best_order, n))
    /\ ((pc = "nearest") ~> (pc = "summary"))

\* the heuristic has built a tour on a matrix with unreachable pairs
C6_Witness ==
    /\ pc = "summary"
    /\ n > ExactLimit
    /\ \E p \in DOMAIN distance_matrix : distance_matrix[p] = Inf
    /\ IsTour(best_order, n)
    /\ best_distance = Inf

\* a path over finite edges from cur through every stop of unv and back to
\* the depot
RECURSIVE FinitePathHome(_, _, _)
FinitePathHome(matrix, cur, unv) ==
    IF unv = {} THEN matrix[<<cur, 0>>] # Inf
    ELSE \E x \in unv :
            /\ matrix[<<cur, x>>] # Inf
            /\ FinitePathHome(matrix, x, unv \ {x})

\* some closed tour over the stops has a finite total distance; a stop that
\* cannot be left or cannot be entered rules it out at once
SomeTourFinite ==
    /\ \A s \in Stops(n) :
          /\ \E t \in Stops(n) \ {s} : distance_matrix[<<s, t>>] # Inf
          /\ \E t \in Stops(n) \ {s} : distance_matrix[<<t, s>>] # Inf
    /\ FinitePathHome(distance_matrix, 0, 1..(n - 1))

\* no leg of the tour r is an unreachable pair
AllLegsFinite(r) ==
    \A k \in 1..(Len(r) - 1) : distance_matrix[<<r[k], r[k + 1]>>] # Inf

\* C15 as stated, for every n: when some closed tour has a finite total
\* distance, the tour the optimizer returns has no unreachable leg.
C15_NoUnreachableLeg ==
    (Optimized /\ best_order # None /\ ~AllLegsFinite(best_order)) => ~SomeTourFinite

\* C15: for n <= 8 (the exact search), when some closed tour has a finite
\* total distance, the tour the optimizer returns has no unreachable leg
\* and its total distance is finite.
C15_ExactNoUnreachableLeg ==
    (Optimized /\ n <= ExactLimit /\ SomeTourFinite) =>
        /\ best_order # None
        /\ AllLegsFinite(best_order)
        /\ best_distance # Inf

\* the exact search has returned a finite tour on a matrix with an
\* unreachable pair
C15_Witness ==
    /\ pc = "summary"
    /\ n = MaxExactStops
    /\ \E p \in DOMAIN distance_matrix : distance_matrix[p] = Inf
    /\ SomeTourFinite
    /\ AllLegsFinite(best_order)

(* ========================= properties of the run ======================= *)

\* C3: whenever a run finishes normally, every entry of the in-memory cache,
\* those added after the last periodic save included, is in the cache file.
C3_FlushedAtExit ==
    (pc = "done") =>
        \A k \in DOMAIN geometry_cache :
            /\ k \in DOMAIN LoadGeometryCache(cache_file)
            /\ LoadGeometryCache(cache_file)[k] = geometry_cache[k]

\* C7: a run with a missing credential, an empty input or a single-stop
\* input aborts before any geocoding or routing request has been made.
C7_AbortBeforeNetwork ==
    (pc = "exit" /\ (~api_key \/ Len(addresses) <= 1)) => ~networked


(* ------------------------- geocoding and filter ------------------------ *)

\* a geocode_address call has just ended (the loop is between two addresses
\* or past the last one)
GeocodeEnded == pc \in {"geocode", "filter"} /\ attempt = 0 /\ coords # <<>>

\* what that call returned
GeocodeReturned == coords[Len(coords)]

\* C11: geocode_address never returns MapQuest's default location
\* (39.78373, -100.445882): a response carrying exactly that location
\* counts as a failed attempt (it is followed by the wait of a failed
\* attempt, and a call whose last response carried it returned None), and
\* a call whose every attempt got it returned None.
C11_DefaultLocationRejected ==
    /\ \A k \in 1..Len(coords) : coords[k] # DefaultLocation
    /\ pc \in {"geocode", "filter"} => geo_defaults <= waits
    /\ (GeocodeEnded /\ geo_last = DefaultLocation) => GeocodeReturned = None
    /\ (GeocodeEnded /\ geo_defaults = requests) => GeocodeReturned = None

\* all three attempts of a call got the default location and the call
\* returned None
C11_Witness ==
    /\ GeocodeEnded
    /\ geo_defaults = Attempts
    /\ requests = Attempts
    /\ geo_last = DefaultLocation
    /\ GeocodeReturned = None


\* the script is past the filter of lines 1015-1023
Filtered ==
    /\ api_key
    /\ addresses # <<>>
    /\ pc \notin {"start", "read", "geocode", "filter"}

\* C12: after geocoding, the stops without a coordinate are removed and the
\* others keep their order under the indices 0..len(df)-1; the script goes
\* on to the matrices exactly when at least two stops remain and exits
\* otherwise; every index of a tour is the index of a stop with a coordinate.
C12_FilteredAndRenumbered ==
    Filtered =>
        /\ Len(df) = Geocoded(coords)
        /\ \A i \in 1..Len(df) :
              /\ df[i].coord # None
              /\ df[i].label \in 1..Len(addresses)
              /\ df[i].coord = coords[df[i].label]
        /\ \A i \in 1..Len(df) : \A j \in 1..Len(df) :
              i < j => df[i].label < df[j].label
        /\ (pc = "exit") <=> (Len(df) <= 1)
        /\ best_order # None =>
              \A k \in 1..Len(best_order) :
                  /\ best_order[k] \in 0..(Len(df) - 1)
                  /\ df[best_order[k] + 1].coord # None

\* the first of three addresses had no coordinate; the other two were
\* renumbered 0 and 1 and the tour 0, 1, 0 was produced
C12_Witness ==
    /\ pc = "done"
    /\ Len(addresses) = 3
    /\ coords[1] = None
    /\ Len(df) = 2
    /\ df[1].label = 2
    /\ best_order = <<0, 1, 0>>


(* --------------------- requests of one call ---------------------------- *)

\* C13: within one get_route_with_geometry call, no request is made when a
\* coordinate is None or the pair is in the cache; OSRM is asked at most
\* 3 times, MapQuest only after 3 failed OSRM attempts and at most 3 times,
\* and the call returns at the first successful response, so it makes at
\* most 6 requests.
C13_RequestOrder ==
    /\ requests <= 2 * Attempts
    /\ pc = "osrm" =>
          /\ source # None /\ destination # None
          /\ CacheKey(source, destination) \notin DOMAIN geometry_cache
          /\ attempt < Attempts
          /\ requests = attempt
          /\ waits = requests
          /\ last # "ok"
    /\ pc = "mapquest" =>
          /\ attempt < Attempts
          /\ requests = Attempts + attempt
          /\ waits = requests
          /\ last = "failed"
    /\ (pc = "returned" /\ (source = None \/ destination = None \/ hit)) =>
          requests = 0
    /\ (pc = "returned" /\ requests > 0) =>
          \/ last = "ok" /\ waits = requests - 1
          \/ last = "failed" /\ waits = requests /\ requests = 2 * Attempts
                             /\ result = FailureSentinel

\* three failed OSRM requests, then MapQuest answered with a route at its
\* second request
C13_Witness ==
    /\ pc = "returned"
    /\ requests = Attempts + 2
    /\ waits = Attempts + 1
    /\ last = "ok"


(* ------------------------- the matrix build ---------------------------- *)

\* the two loops of lines 1037-1048 are running
InMatrixBuild == pc \in {"matrix", "osrm", "mapquest", "returned"}

\* they have ended
MatrixBuilt == pc \in {"optimize", "exact", "summary", "crashed", "done"}

\* the entries of the pair p are what the call for p returned
StoredAsReturned(p) ==
    /\ distance_matrix[p] = returns[p][2]
    /\ duration_matrix[p] = returns[p][1]
    /\ returns[p] = FailureSentinel =>
          /\ distance_matrix[p] = Inf
          /\ duration_matrix[p] = Inf
          /\ p \notin DOMAIN route_geometries

\* C14: the matrix build calls get_route_with_geometry once for every pair
\* (i, j) with i # j, in the order of the loops, and never for i = j; no
\* call raises and the loops always have a next step until the last pair is
\* stored; afterwards the diagonal is zero and every other entry is the
\* distance and duration returned for its pair, infinite and without an
\* entry in route_geometries when the call returned the failure sentinel.
C14_MatrixBuild ==
    /\ pc # "raised"
    /\ InMatrixBuild =>
          /\ ENABLED (MatrixCall \/ RunOsrm \/ RunMapquest \/ MatrixStore)
          /\ Len(called) <= Len(LoopPairs(n))
          /\ called = SubSeq(LoopPairs(n), 1, Len(called))
          /\ \A p \in DOMAIN returns : StoredAsReturned(p)
    /\ MatrixBuilt =>
          /\ called = LoopPairs(n)
          /\ \A p \in StopPairs(n) :
                IF p[1] = p[2]
                THEN /\ distance_matrix[p] = 0
                     /\ duration_matrix[p] = 0
                     /\ p \notin DOMAIN returns
                ELSE /\ p \in DOMAIN returns
                     /\ StoredAsReturned(p)

\* both providers failed for the pair (0, 1) and a route came back for
\* (1, 0)
C14_Witness ==
    /\ pc = "optimize"
    /\ n = 2
    /\ called = <<<<0, 1>>, <<1, 0>>>>
    /\ returns[<<0, 1>>] = FailureSentinel
    /\ returns[<<1, 0>>] # FailureSentinel
    /\ distance_matrix[<<0, 1>>] = Inf
    /\ distance_matrix[<<1, 0>>] # Inf
    /\ <<0, 1>> \notin DOMAIN route_geometries


(* ------------------------- cache persistence --------------------------- *)

\* what load_geometry_cache returns when the program is started again
Reloaded == LoadGeometryCache(cache_file)

\* C16: when the process is killed at any point of a run, a periodic save
\* in progress included, load_geometry_cache at the next start returns at
\* least every entry the last completed save left in the file.
C16_CrashSafe ==
    pc = "killed" =>
        \A k \in DOMAIN flushed :
            /\ k \in DOMAIN Reloaded
            /\ Reloaded[k] = flushed[k]


\* the number of entries of the cache in memory
CacheSize == Cardinality(DOMAIN geometry_cache)

\* C17 as stated: save_geometry_cache is called exactly when the number of
\* entries written in this run reaches a multiple of 10, whatever the
\* number of entries loaded at startup.
C17_FlushOnNewCount ==
    [][(saves' = saves + 1) <=>
           (new_entries' = new_entries + 1 /\ new_entries' % FlushEvery = 0)]_vars

\* C17: every write adds one entry, and save_geometry_cache is called
\* exactly at the writes that bring the size of the whole cache, loaded
\* entries included, to a multiple of 10.
C17_FlushOnCacheSize ==
    [][/\ saves' \in {saves, saves + 1}
       /\ new_entries' \in {new_entries, new_entries + 1}
       /\ (new_entries' = new_entries + 1) <=> (geometry_cache' # geometry_cache)
       /\ (new_entries' = new_entries + 1) => (CacheSize' = CacheSize + 1)
       /\ (saves' = saves + 1) <=>
              (new_entries' = new_entries + 1 /\ CacheSize' % FlushEvery = 0)]_vars

\* entries were loaded, and a write of this run, not its 10th, brought the
\* cache to 10 entries and was followed by a save
C17_Witness ==
    /\ new_entries \in 1..(FlushEvery - 1)
    /\ CacheSize = FlushEvery
    /\ saves = 1
    /\ pc = "returned"


\* C18: across the calls of a run, a key that is in the cache stays in it
\* with the same entry: no step removes a key or changes the value stored
\* under it.
C18_EntriesImmutable ==
    [][\A k \in DOMAIN geometry_cache :
           /\ k \in DOMAIN geometry_cache'
           /\ geometry_cache'[k] = geometry_cache[k]]_vars

\* after two writes of this run, a call for a cached pair was answered
\* from the cache
C18_Witness ==
    /\ pc = "returned"
    /\ new_entries = 2
    /\ hit
    /\ CacheSize >= 2


\* C19: load_geometry_cache at startup lets no exception out: with the
\* cache file missing, or present but not loadable, the run starts with an
\* empty cache, and with a loadable file the cache is the mapping stored in
\* it.
C19_LoadNeverFatal ==
    /\ pc # "raised"
    /\ pc = "read" =>
          /\ cache_file.state = "missing" => geometry_cache = EmptyCache
          /\ cache_file.state = "corrupt" => geometry_cache = EmptyCache
          /\ cache_file.state = "ok" => geometry_cache = cache_file.data

\* the run has started on a cache file that cannot be deserialized
C19_Witness ==
    /\ pc = "read"
    /\ cache_file = CorruptFile
    /\ geometry_cache = EmptyCache


(* --------------------------- route_geometries -------------------------- *)

\* no key (i, i) and no None value in route_geometries
NoDiagonalNoNull ==
    \A p \in DOMAIN route_geometries :
        /\ p[1] # p[2]
        /\ route_geometries[p] # None

\* C20 as stated: after the matrix build, route_geometries has the key
\* (i, j) exactly when the call for (i, j) returned a geometry other than
\* None; it holds no None value and no key (i, i).
C20_KeyIffGeometryReturned ==
    MatrixBuilt =>
        /\ NoDiagonalNoNull
        /\ \A p \in DOMAIN returns :
              (p \in DOMAIN route_geometries) <=> (returns[p][3] # None)

\* C20: after the matrix build, route_geometries has the key (i, j) exactly
\* when the call for (i, j) returned a geometry that is neither None nor
\* an empty list, and the value is that geometry; it holds no None value
\* and no key (i, i).
C20_KeyIffPathReturned ==
    (MatrixBuilt \/ InMatrixBuild) =>
        /\ NoDiagonalNoNull
        /\ DOMAIN route_geometries \subseteq DOMAIN returns
        /\ \A p \in DOMAIN returns :
              /\ (p \in DOMAIN route_geometries) <=>
                     (returns[p][3] # None /\ returns[p][3] # <<>>)
              /\ p \in DOMAIN route_geometries =>
                     route_geometries[p] = returns[p][3]

\* the build has ended with a geometry stored for (1, 0) and none for
\* (0, 1), for which OSRM answered with an empty path
C20_Witness ==
    /\ pc = "optimize"
    /\ returns[<<0, 1>>][3] = <<>>
    /\ <<0, 1>> \notin DOMAIN route_geometries
    /\ <<1, 0>> \in DOMAIN route_geometries
    /\ route_geometries[<<1, 0>>] = returns[<<1, 0>>][3]


(* ----------------------- the nearest-neighbour steps ------------------- *)

\* the stops not yet visited when the k-th element of route was chosen
UnvisitedBefore(k) == (1..(n - 1)) \ {route[j] : j \in 1..(k - 1)}

\* C21: for n > 8, every stop the nearest-neighbour loop appends is an
\* unvisited stop at minimal distance from the stop before it, and among
\* the unvisited stops at that minimal distance it is the one with the
\* lowest index.
C21_NearestLowestIndex ==
    (n > ExactLimit /\ pc \in {"nearest", "summary", "render", "done"}) =>
        \A k \in 2..Len(route) :
            k <= n =>
                /\ route[k] \in UnvisitedBefore(k)
                /\ \A y \in UnvisitedBefore(k) :
                      /\ AtMost(distance_matrix[<<route[k - 1], route[k]>>],
                                distance_matrix[<<route[k - 1], y>>])
                      /\ distance_matrix[<<route[k - 1], y>>]
                            = distance_matrix[<<route[k - 1], route[k]>>]
                         => route[k] <= y

\* the loop has ended on a tour in which some stop was chosen among several
\* unvisited stops at the same minimal distance, and at some step an
\* unvisited stop was unreachable from the current one
C21_Witness ==
    /\ pc = "summary"
    /\ n > ExactLimit
    /\ \E k \in 2..n : \E y \in UnvisitedBefore(k) \ {route[k]} :
          distance_matrix[<<route[k - 1], y>>]
              = distance_matrix[<<route[k - 1], route[k]>>]
    /\ \E k \in 2..n : \E y \in UnvisitedBefore(k) :
          distance_matrix[<<route[k - 1], y>>] = Inf


(* ------------------------------ backoff -------------------------------- *)

\* C22: a retry loop sleeps only between two attempts: when the OSRM loop
\* has made its last attempt and the call goes on to MapQuest, and when a
\* call that made requests has returned, the sleeps number at most one
\* fewer than the requests made.
C22_NoWaitAfterLastAttempt ==
    /\ (pc = "mapquest" /\ attempt = 0) => waits <= requests - 1
    /\ (pc = "returned" /\ requests > 0) => waits <= requests - 1


(* ------------------------------ the depot ------------------------------ *)

\* the row of addresses.csv behind the stop of index i
RowOfStop(i) == df[i + 1].label

\* C23: whatever addresses failed to geocode, a tour the run produces
\* starts and ends at the first row of addresses.csv.
C23_DepotIsFirstRow ==
    (Filtered /\ Optimized /\ best_order # None) =>
        /\ RowOfStop(best_order[1]) = addresses[1]
        /\ RowOfStop(best_order[Len(best_order)]) = addresses[1]


(* ----------------------- locations the geocoder gives ------------------ *)

\* C24: geocode_address rejects the default location only: an attempt whose
\* response carries a location that differs from (39.78373, -100.445882)
\* in latitude or in longitude ends the call, which returns that location.
C24_OnlyDefaultRejected ==
    (pc \in {"geocode", "filter"} /\ geo_last # None /\ geo_last # DefaultLocation) =>
        /\ GeocodeEnded
        /\ GeocodeReturned = geo_last


(* ------------------------------ loss window ---------------------------- *)

\* the entries of the cache in memory that are not in the cache file
Unpersisted ==
    {k \in DOMAIN geometry_cache :
         cache_file.state # "ok" \/ k \notin DOMAIN cache_file.data}

\* no save_geometry_cache of this run has failed: none was called, or the
\* file is what the save at the last multiple of 10 wrote
WritesSucceeded ==
    \/ saves = 0
    \/ /\ cache_file = GoodFile(flushed)
       /\ Cardinality(DOMAIN flushed) = FlushEvery * (CacheSize \div FlushEvery)

====
